---- MODULE Spec2Model ----
(***************************************************************************)
(* Model of the token discovery bot in src/main.py: the top-level loop     *)
(* (main), one polling pass (process_new_tokens), the pair selector        *)
(* (get_main_pair), the risk calculator (calculate_investment_risk), the   *)
(* formatter's outcome (generate_token_info) and the pump filter           *)
(* (is_pump_token).                                                        *)
(*                                                                         *)
(* JSON values are modelled by what the code does with them:               *)
(*   scalar  [t, n]   t = "absent" (key missing), "null", "str" (a string  *)
(*                    float() rejects), "nan" (float() gives NaN, e.g. the *)
(*                    string "nan"), "num" (the number n, whole USD or %)  *)
(*   field   [m, v]   m = "absent" (key missing), "notmap" (a value that   *)
(*                    is not a dict), "map" (a dict whose sub-key is v)    *)
(*   pair    [kind, liquidity, volume, priceChange]                        *)
(*                    kind = "nodict" (not a dict), "empty" ({}), "dict"   *)
(* A parsed float is [exc, nan, n]: exc names the exception float() or     *)
(* .get raised ("none" when it returned), nan says the value is NaN.       *)
(* risk_score is kept in units of 10^-4 and risk_percentage in units of    *)
(* 10^-3 percent, exact for volumes that are multiples of 10.              *)
(* Token addresses are sequences of characters, so that lower() and        *)
(* endswith() are computed. The profiles that reach the loop are dicts     *)
(* (fetch_token_profiles keeps only those), so main.py:390 never skips.    *)
(***************************************************************************)
EXTENDS Integers, Sequences, FiniteSets

VARIABLES
    known_tokens,    \* main.py:16, the list of addresses already alerted on
    pc,              \* position of main(): "start", "loop", "sleep", "recover", "stopped"
    token_profiles,  \* candidates of the running pass not yet iterated (main.py:389)
    tokens_sent,     \* main.py:388
    sleep_for,       \* duration of the sleep main() is in (0 when not sleeping)
    interrupted,     \* a KeyboardInterrupt was delivered
    ev,              \* what the latest iteration of the running pass did (history)
    sent_ok,         \* per address: send_to_telegram calls that returned True (history)
    last_send,       \* per address: result of the latest send ("none", "ok", "fail")
    pass_status,     \* how the latest pass ended: "none", "running", "returned", "raised"
    fn,              \* pure-function specifications: which function was applied
    arg,             \* its argument
    ret              \* its result

vars == <<known_tokens, pc, token_profiles, tokens_sent, sleep_for, interrupted,
          ev, sent_ok, last_send, pass_status, fn, arg, ret>>

pipeline_vars == <<known_tokens, pc, token_profiles, tokens_sent, sleep_for,
                   interrupted, ev, sent_ok, last_send, pass_status>>

\* ---------------------------------------------------------------- bounds
MaxProfiles == 2
MaxSelPairs == 3
CountCap == 2

\* ------------------------------------------------------ program constants
CHECK_INTERVAL == 300
LIQUIDITY_THRESHOLD == 5000
RECOVERY_SLEEP == 10

\* ------------------------------------------------------------ JSON values
Scalar(t, n) == [t |-> t, n |-> n]
AbsentScalar == Scalar("absent", 0)
Num(n) == Scalar("num", n)
Field(m, v) == [m |-> m, v |-> v]
AbsentField == Field("absent", AbsentScalar)
NotMapField == Field("notmap", AbsentScalar)
Map(v) == Field("map", v)
Pair(kind, l, v, c) == [kind |-> kind, liquidity |-> l, volume |-> v, priceChange |-> c]
NoDictPair == Pair("nodict", AbsentField, AbsentField, AbsentField)
EmptyPair == Pair("empty", AbsentField, AbsentField, AbsentField)
DictPair(l, v, c) == Pair("dict", l, v, c)

Float(exc, nan, n) == [exc |-> exc, nan |-> nan, n |-> n]

\* float(x) for x the value d.get(key, 0) returned
PyFloat(v) ==
    CASE v.t = "absent" -> Float("none", FALSE, 0)
      [] v.t = "num"    -> Float("none", FALSE, v.n)
      [] v.t = "nan"    -> Float("none", TRUE, 0)
      [] v.t = "null"   -> Float("TypeError", FALSE, 0)
      [] OTHER          -> Float("ValueError", FALSE, 0)

\* float(pair.get(key, {}).get(sub, 0)): a non-dict value has no .get
GetFloat(f) ==
    CASE f.m = "notmap" -> Float("AttributeError", FALSE, 0)
      [] f.m = "absent" -> PyFloat(AbsentScalar)
      [] OTHER          -> PyFloat(f.v)

\* x < y on floats: every comparison with NaN is False
FloatLess(x, y) == ~x.nan /\ x.n < y

\* -------------------------------------------------------- get_main_pair
\* main.py:127-131: a liquidity value that is not a dict is replaced by {}
SelectorLiquidity(pair) ==
    PyFloat(IF pair.liquidity.m = "map" THEN pair.liquidity.v ELSE AbsentScalar)

\* main.py:122-139: the scan; main_pair is an index into pairs, 0 for None
RECURSIVE scan_pairs(_, _, _, _)
scan_pairs(pairs, i, main_pair, max_liquidity) ==
    IF i > Len(pairs) THEN main_pair
    ELSE IF pairs[i].kind = "nodict" THEN scan_pairs(pairs, i + 1, main_pair, max_liquidity)
    ELSE LET liquidity == SelectorLiquidity(pairs[i]) IN
         IF liquidity.exc # "none"
         THEN scan_pairs(pairs, i + 1, main_pair, max_liquidity)
         ELSE IF ~liquidity.nan /\ liquidity.n > max_liquidity
         THEN scan_pairs(pairs, i + 1, i, liquidity.n)
         ELSE scan_pairs(pairs, i + 1, main_pair, max_liquidity)

\* main.py:141-143: the fallback looks at pairs[0] only; main.py:145: an empty
\* dict is falsy, so it is reported as no pair
fallback_pair(pairs) == IF pairs[1].kind = "dict" THEN 1 ELSE 0

\* main.py:114-149 on a list of pairs: the index of the main pair, 0 for None
main_pair_index(pairs) ==
    IF pairs = <<>> THEN 0
    ELSE LET main_pair == scan_pairs(pairs, 1, 0, 0) IN
         IF main_pair # 0 THEN main_pair ELSE fallback_pair(pairs)

\* token_data: [pairs_is_list, pairs, self]; self is the dict itself read as a pair
TokenData(is_list, pairs, self) == [pairs_is_list |-> is_list, pairs |-> pairs, self |-> self]
PlainSelf == DictPair(AbsentField, AbsentField, AbsentField)

\* main.py:107-112
pairs_of(token_data) ==
    IF token_data.pairs_is_list THEN token_data.pairs ELSE <<token_data.self>>

NoPair == [found |-> FALSE, index |-> 0, pair |-> NoDictPair]

\* main.py:99-153; index is the position of the returned object in pairs
get_main_pair(token_data) ==
    LET pairs == pairs_of(token_data)
        i == main_pair_index(pairs)
    IN IF i = 0 THEN NoPair ELSE [found |-> TRUE, index |-> i, pair |-> pairs[i]]

\* -------------------------------------------- calculate_investment_risk
Abs(x) == IF x < 0 THEN -x ELSE x
\* min(100, max(0, x)) in units of 10^-3 percent; max(0, NaN) is 0
Clamp(nan, x) == IF nan \/ x < 0 THEN 0 ELSE IF x > 100000 THEN 100000 ELSE x

NoRisk == [ok |-> FALSE, liquidity |-> 0, volume_24h |-> 0, price_change_24h |-> 0,
           nan |-> FALSE, risk_score |-> 0, risk_percentage |-> 0]

\* mutant: the volume term is added
risk_score_adds_volume(liquidity, volume_24h, price_change_24h) ==
    liquidity + (volume_24h \div 10) + 1000 * Abs(price_change_24h)

\* main.py:166: liquidity/10000 - volume_24h/100000 + abs(price_change_24h)/10, times 10^4
risk_score_of(liquidity, volume_24h, price_change_24h) ==
    liquidity - (volume_24h \div 10) + 1000 * Abs(price_change_24h)

\* main.py:155-178
calculate_investment_risk(pair) ==
    IF pair.kind = "nodict" THEN NoRisk
    ELSE LET liquidity == GetFloat(pair.liquidity)
             volume_24h == GetFloat(pair.volume)
             price_change_24h == GetFloat(pair.priceChange)
         IN IF liquidity.exc # "none" \/ volume_24h.exc # "none"
               \/ price_change_24h.exc # "none"
            THEN NoRisk
            ELSE LET nan == liquidity.nan \/ volume_24h.nan \/ price_change_24h.nan
                     risk_score == risk_score_of(liquidity.n, volume_24h.n, price_change_24h.n)
                 IN [ok |-> TRUE, liquidity |-> liquidity.n, volume_24h |-> volume_24h.n,
                     price_change_24h |-> price_change_24h.n, nan |-> nan,
                     risk_score |-> IF nan THEN 0 ELSE risk_score,
                     risk_percentage |-> Clamp(nan, risk_score)]

\* ------------------------------------------------------- token addresses
\* tokenAddress as token_profile.get("tokenAddress") returns it:
\* k = "none" (missing or null), "str" (the string s, a sequence of characters)
Addr(k, s) == [k |-> k, s |-> s]
AddrNone == Addr("none", <<>>)
AddrEmpty == Addr("str", <<>>)
AddrAb == Addr("str", <<"A", "b">>)
AddrPumps == Addr("str", <<"p", "u", "m", "p", "s">>)
AddrPumpMixed == Addr("str", <<"x", "P", "u", "M", "p">>)
AddrPumpUpper == Addr("str", <<"P", "U", "M", "P">>)
Addresses == {AddrNone, AddrEmpty, AddrAb, AddrPumps, AddrPumpMixed, AddrPumpUpper}

\* str.lower() on the alphabet of Addresses
LowerChar(c) ==
    CASE c = "A" -> "a"
      [] c = "P" -> "p"
      [] c = "U" -> "u"
      [] c = "M" -> "m"
      [] OTHER   -> c
lower(s) == [i \in 1..Len(s) |-> LowerChar(s[i])]
endswith(s, suffix) ==
    Len(s) >= Len(suffix) /\ SubSeq(s, Len(s) - Len(suffix) + 1, Len(s)) = suffix

\* mutant: the suffix is compared without lower()
is_pump_token_case_sensitive(token_address) ==
    IF token_address.k # "str" THEN FALSE
    ELSE endswith(token_address.s, <<"p", "u", "m", "p">>)

\* main.py:373-377
is_pump_token(token_address) ==
    IF token_address.k # "str" THEN FALSE
    ELSE endswith(lower(token_address.s), <<"p", "u", "m", "p">>)

\* Python truth value of a tokenAddress (main.py:395, "not token_address")
Truthy(token_address) ==
    CASE token_address.k = "none" -> FALSE
      [] token_address.k = "str"  -> token_address.s # <<>>
      [] OTHER                    -> TRUE

\* x in list
InList(x, list) == \E i \in 1..Len(list) : list[i] = x

\* mutant: the membership test of known_tokens is forgotten
skip_candidate_ignores_known(token_address, known) ==
    ~Truthy(token_address) \/ is_pump_token(token_address)

\* main.py:395, the condition of the first "continue"
skip_candidate(token_address, known) ==
    ~Truthy(token_address) \/ InList(token_address, known) \/ is_pump_token(token_address)

\* ------------------------------------------------- fetch_token_profiles
Profile(is_dict, chainId, a) == [is_dict |-> is_dict, chainId |-> chainId, tokenAddress |-> a]
RawProfiles ==
    {Profile(FALSE, "none", AddrNone), Profile(TRUE, "ethereum", AddrAb)}
    \cup {Profile(TRUE, "solana", a) : a \in Addresses}

RECURSIVE SeqsUpTo(_, _)
SeqsUpTo(S, n) ==
    IF n = 0 THEN {<<>>}
    ELSE LET shorter == SeqsUpTo(S, n - 1)
         IN shorter \cup {Append(q, x) : q \in {r \in shorter : Len(r) = n - 1}, x \in S}

\* the profiles endpoint's answer: a failed request or undecodable body
\* ("error"), JSON that is not a list ("notlist"), or a list
ProfileResponses ==
    {[kind |-> "error", data |-> <<>>], [kind |-> "notlist", data |-> <<>>]}
    \cup {[kind |-> "list", data |-> d] : d \in SeqsUpTo(RawProfiles, MaxProfiles)}


\* main.py:22-54
fetch_token_profiles(resp) ==
    IF resp.kind # "list" THEN <<>>
    ELSE LET solana(token) == token.is_dict /\ token.chainId = "solana"
         IN SelectSeq(resp.data, solana)

\* --------------------------------------------------- fetch_token_details
\* pair records of the pairs endpoint the pipeline is run on
NullField == Map(Scalar("null", 0))
NanField == Map(Scalar("nan", 0))
Liq(n) == DictPair(Map(Num(n)), AbsentField, AbsentField)
NotMapLiq == DictPair(NotMapField, AbsentField, AbsentField)
NullLiq == DictPair(NullField, AbsentField, AbsentField)
NanLiq == DictPair(NanField, AbsentField, AbsentField)
NullVolume(n) == DictPair(Map(Num(n)), NullField, AbsentField)
PipeDicts == {Liq(4999), Liq(5000), NotMapLiq, NullLiq, NanLiq, NullVolume(5000)}
PipeLists ==
    {<<>>, <<NoDictPair>>, <<EmptyPair>>, <<NoDictPair, Liq(5000)>>, <<NoDictPair, Liq(0)>>,
     <<Liq(4999), Liq(5000)>>, <<Liq(5000), NullLiq>>, <<NullLiq, Liq(4999)>>,
     <<NanLiq, Liq(4999)>>, <<Liq(4999), NullVolume(5000)>>}

\* the pairs endpoint's answer: kind = "error" (request failed), "empty" (no
\* content), "badjson", "scalar" (JSON that is neither list nor dict), "list",
\* "dict_pairs" (a dict with key "pairs", here with a value that is no list),
\* "dict" (a dict without key "pairs": one pair)
DetailResponse(kind, pairs, self) == [kind |-> kind, pairs |-> pairs, self |-> self]
DetailResponses ==
    {DetailResponse(k, <<>>, PlainSelf) : k \in {"error", "empty", "badjson", "scalar"}}
    \cup {DetailResponse("list", d, PlainSelf) : d \in PipeLists}
    \cup {DetailResponse("dict_pairs", <<>>, d) : d \in {PlainSelf, Liq(5000)}}
    \cup {DetailResponse("dict", <<>>, d) : d \in PipeDicts \cup {EmptyPair}}

NoData == [ok |-> FALSE, data |-> TokenData(TRUE, <<>>, PlainSelf)]

\* main.py:56-97
fetch_token_details(resp) ==
    CASE resp.kind = "list"       -> [ok |-> TRUE, data |-> TokenData(TRUE, resp.pairs, PlainSelf)]
      [] resp.kind = "dict_pairs" -> [ok |-> TRUE, data |-> TokenData(FALSE, <<>>, resp.self)]
      [] resp.kind = "dict"       -> [ok |-> TRUE, data |-> TokenData(TRUE, <<resp.self>>, PlainSelf)]
      [] OTHER                    -> NoData

\* -------------------------------------------------- generate_token_info
\* message: "no_pair" is "Dados do par nao disponiveis", "risk_error" is
\* "Erro ao calcular risco", "alert" is the formatted alert of main.py:214-225
\* main.py:180-227 (token_profile and token_data are dicts in every call)
generate_token_info(token_data) ==
    LET pair == get_main_pair(token_data) IN
    IF ~pair.found THEN [message |-> "no_pair", pair |-> NoPair, risk |-> NoRisk]
    ELSE LET risk_data == calculate_investment_risk(pair.pair) IN
         IF ~risk_data.ok THEN [message |-> "risk_error", pair |-> NoPair, risk |-> NoRisk]
         ELSE [message |-> "alert", pair |-> pair, risk |-> risk_data]

\* main.py:229-340: no buffer for a pair that is no dict or when rendering fails
generate_plotly_graph(pair, render_ok) == pair.found /\ render_ok

\* main.py:342-371: the mode and the result of one call
send_to_telegram(message, image_buffer, http_ok) ==
    IF message = "" THEN [mode |-> "none", result |-> FALSE]
    ELSE [mode |-> IF image_buffer THEN "photo" ELSE "text", result |-> http_ok]

\* ------------------------------------------------- process_new_tokens
\* what one iteration of the loop of main.py:389-417 did
\* addr: the candidate; was_known, prev: its membership of known_tokens and its
\* last_send before the iteration; fetched: fetch_token_details was called;
\* main: a main pair was selected; liq: the liquidity read at main.py:406;
\* raised: an exception left the iteration; message: what generate_token_info
\* returned; sent: send_to_telegram was called; mode, ok: its mode and result
Event(a, known, prev, fetched, main, liq, raised, message, sent, mode, ok) ==
    [addr |-> a, was_known |-> known, prev |-> prev, fetched |-> fetched, main |-> main, liq |-> liq,
     raised |-> raised, message |-> message, sent |-> sent, mode |-> mode, ok |-> ok]
NoFloat == Float("none", FALSE, 0)
NoEvent == Event(AddrNone, FALSE, "none", FALSE, FALSE, NoFloat, FALSE, "", FALSE, "none", FALSE)
Skipped(a, known, prev, fetched, main, liq) ==
    Event(a, known, prev, fetched, main, liq, FALSE, "", FALSE, "none", FALSE)

\* mutant: "<=" for "<"
below_threshold_inclusive(liquidity) ==
    ~liquidity.nan /\ liquidity.n <= LIQUIDITY_THRESHOLD

\* main.py:407
below_threshold(liquidity) == FloatLess(liquidity, LIQUIDITY_THRESHOLD)

\* main.py:406: the exception of the liquidity read escapes the pass
liquidity_raises(liquidity) == liquidity.exc # "none"

Bump(n) == IF n < CountCap THEN n + 1 ELSE n

\* mutant: the address is marked whatever the send returned
mark_known_always(known, token_address, result) == Append(known, token_address)

\* main.py:413-415
mark_known(known, token_address, result) ==
    IF result THEN Append(known, token_address) ELSE known

\* mutant: the handler ends the loop
exception_handler_stops == [pc |-> "stopped", sleep_for |-> 0]

\* main.py:431-433: main() catches what the pass raised and sleeps
exception_handler == [pc |-> "recover", sleep_for |-> RECOVERY_SLEEP]

\* the state after an iteration that did e: main.py:413-417, and 431-433 when
\* an exception left the pass
Finish(e) ==
    /\ ev' = e
    /\ known_tokens' = mark_known(known_tokens, e.addr, e.sent /\ e.ok)
    /\ tokens_sent' = IF e.sent /\ e.ok THEN tokens_sent + 1 ELSE tokens_sent
    /\ sent_ok' = IF e.sent /\ e.ok
                  THEN [sent_ok EXCEPT ![e.addr] = Bump(@)] ELSE sent_ok
    /\ last_send' = IF e.sent
                    THEN [last_send EXCEPT ![e.addr] = IF e.ok THEN "ok" ELSE "fail"]
                    ELSE last_send
    /\ IF e.raised
       THEN /\ pc' = exception_handler.pc
            /\ sleep_for' = exception_handler.sleep_for
            /\ pass_status' = "raised"
            /\ token_profiles' = <<>>
       ELSE /\ token_profiles' = Tail(token_profiles)
            /\ UNCHANGED <<pc, sleep_for, pass_status>>

\* one iteration of main.py:389-417
ProcessCandidate ==
    /\ pc = "loop"
    /\ token_profiles # <<>>
    /\ LET token_address == Head(token_profiles).tokenAddress
           known == InList(token_address, known_tokens)
           prev == last_send[token_address]
       IN IF skip_candidate(token_address, known_tokens)
          THEN Finish(Skipped(token_address, known, prev, FALSE, FALSE, NoFloat))
          ELSE \E resp \in DetailResponses :
               LET token_data == fetch_token_details(resp)
                   pair == get_main_pair(token_data.data)
                   liquidity == GetFloat(pair.pair.liquidity)
               IN IF ~token_data.ok \/ ~pair.found
                  THEN Finish(Skipped(token_address, known, prev, TRUE, FALSE, NoFloat))
                  ELSE IF liquidity_raises(liquidity)
                  THEN Finish(Event(token_address, known, prev, TRUE, TRUE, liquidity, TRUE,
                                    "", FALSE, "none", FALSE))
                  ELSE IF below_threshold(liquidity)
                  THEN Finish(Skipped(token_address, known, prev, TRUE, TRUE, liquidity))
                  ELSE \E render_ok, http_ok \in BOOLEAN :
                       LET info == generate_token_info(token_data.data)
                           graph_buffer == generate_plotly_graph(info.pair, render_ok)
                           sent == send_to_telegram(info.message, graph_buffer, http_ok)
                       IN Finish(Event(token_address, known, prev, TRUE, TRUE, liquidity, FALSE,
                                       info.message, TRUE, sent.mode, sent.result))
    /\ UNCHANGED <<interrupted, fn, arg, ret>>

\* main.py:426 and 381-388: main() calls process_new_tokens, which fetches the profiles
StartPass ==
    /\ pc = "start"
    /\ \E resp \in ProfileResponses :
         LET profiles == fetch_token_profiles(resp) IN
         /\ token_profiles' = profiles
         /\ IF profiles = <<>>
            THEN /\ pc' = "sleep"
                 /\ sleep_for' = CHECK_INTERVAL
                 /\ pass_status' = "returned"
            ELSE /\ pc' = "loop"
                 /\ sleep_for' = 0
                 /\ pass_status' = "running"
    /\ tokens_sent' = 0
    /\ UNCHANGED <<known_tokens, interrupted, ev, sent_ok, last_send, fn, arg, ret>>

\* main.py:419-420 and 427: the loop is exhausted, the pass returns (its locals
\* and the record of its last iteration are dropped), main() sleeps
EndPass ==
    /\ pc = "loop"
    /\ token_profiles = <<>>
    /\ pc' = "sleep"
    /\ sleep_for' = CHECK_INTERVAL
    /\ pass_status' = "returned"
    /\ tokens_sent' = 0
    /\ ev' = NoEvent
    /\ UNCHANGED <<known_tokens, token_profiles, interrupted, sent_ok, last_send, fn, arg, ret>>

\* main.py:427 and 433: a sleep of main() ends and the while loop starts over
Wake ==
    /\ pc \in {"sleep", "recover"}
    /\ pc' = "start"
    /\ sleep_for' = 0
    /\ UNCHANGED <<known_tokens, token_profiles, tokens_sent, interrupted, ev, sent_ok,
                   last_send, pass_status, fn, arg, ret>>

\* main.py:428-430: KeyboardInterrupt, wherever main() is (inside the handler of
\* main.py:431-433 it is not caught and ends the process as well)
Interrupt ==
    /\ pc # "stopped"
    /\ pc' = "stopped"
    /\ interrupted' = TRUE
    /\ sleep_for' = 0
    /\ token_profiles' = <<>>
    /\ tokens_sent' = 0
    /\ ev' = NoEvent
    /\ UNCHANGED <<known_tokens, sent_ok, last_send, pass_status, fn, arg, ret>>

\* main.py:16 and 422-424
PipelineInit ==
    /\ known_tokens = <<>>
    /\ pc = "start"
    /\ token_profiles = <<>>
    /\ tokens_sent = 0
    /\ sleep_for = 0
    /\ interrupted = FALSE
    /\ ev = NoEvent
    /\ sent_ok = [a \in Addresses |-> 0]
    /\ last_send = [a \in Addresses |-> "none"]
    /\ pass_status = "none"

Init ==
    /\ PipelineInit
    /\ fn = "idle"
    /\ arg = <<>>
    /\ ret = 0

Next == StartPass \/ ProcessCandidate \/ EndPass \/ Wake \/ Interrupt

Spec == Init /\ [][Next]_vars

\* main() is one sequential thread: whichever step it is at is eventually
\* taken (every network call has a timeout, every sleep ends). Nothing forces
\* an interruption.
FairSpec ==
    /\ Spec
    /\ WF_vars(StartPass) /\ WF_vars(ProcessCandidate) /\ WF_vars(EndPass) /\ WF_vars(Wake)

\* ------------------------------------------- get_main_pair on its own
StrLiq == DictPair(Map(Scalar("str", 0)), AbsentField, AbsentField)
SelPairs ==
    {NoDictPair, EmptyPair, PlainSelf, NotMapLiq, NullLiq, StrLiq, NanLiq,
     Liq(-5), Liq(0), Liq(3000), Liq(7000)}

InitSelector ==
    /\ PipelineInit
    /\ fn = "idle"
    /\ arg \in {TokenData(TRUE, d, PlainSelf) : d \in SeqsUpTo(SelPairs, MaxSelPairs)}
    /\ ret = NoPair

\* one call get_main_pair(arg)
ApplySelector ==
    /\ fn = "idle"
    /\ fn' = "get_main_pair"
    /\ ret' = get_main_pair(arg)
    /\ UNCHANGED <<pipeline_vars, arg>>

SpecSelector == InitSelector /\ [][ApplySelector]_vars

\* ------------------------------- calculate_investment_risk on its own
RiskLiquidity ==
    {AbsentField, NotMapField, NanField} \cup {Map(Num(n)) : n \in {0, 4999, 20000, 1000000000}}
RiskVolume ==
    {AbsentField, NullField, NanField} \cup {Map(Num(n)) : n \in {0, 50000, 1000000000}}
RiskPriceChange ==
    {AbsentField, Map(Scalar("str", 0))} \cup {Map(Num(n)) : n \in {-10, 0, 10, 1000}}
RiskPairs ==
    {NoDictPair}
    \cup {DictPair(l, v, c) : l \in RiskLiquidity, v \in RiskVolume, c \in RiskPriceChange}

InitRisk ==
    /\ PipelineInit
    /\ fn = "idle"
    /\ arg \in RiskPairs
    /\ ret = NoRisk

\* one call calculate_investment_risk(arg)
ApplyRisk ==
    /\ fn = "idle"
    /\ fn' = "calculate_investment_risk"
    /\ ret' = calculate_investment_risk(arg)
    /\ UNCHANGED <<pipeline_vars, arg>>

SpecRisk == InitRisk /\ [][ApplyRisk]_vars

\* ================================================================ claims
\* What a candidate's iteration is said to have seen
PassedFilters(e) ==
    e.main /\ e.liq.exc = "none" /\ ~e.liq.nan /\ e.liq.n >= LIQUIDITY_THRESHOLD
EndsWithPumpAnyCase(a) ==
    /\ a.k = "str"
    /\ Len(a.s) >= 4
    /\ a.s[Len(a.s) - 3] \in {"p", "P"}
    /\ a.s[Len(a.s) - 2] \in {"u", "U"}
    /\ a.s[Len(a.s) - 1] \in {"m", "M"}
    /\ a.s[Len(a.s)] \in {"p", "P"}

\* C1: every address has at most one successful send; an address whose send
\* succeeded is in known_tokens, and an occurrence of a known address is
\* skipped before any details fetch or send.
C1_AtMostOneSend ==
    /\ \A a \in Addresses : sent_ok[a] <= 1
    /\ \A a \in Addresses : sent_ok[a] >= 1 => InList(a, known_tokens)
    /\ ev.was_known => ~ev.fetched /\ ~ev.sent
C1_Witness ==
    pc = "loop" /\ ev.was_known /\ sent_ok[ev.addr] = 1 /\ ~ev.fetched

\* C2: known_tokens is empty at startup and every step leaves it unchanged or
\* appends exactly the address of the candidate whose send just returned
\* success; it never shrinks.
C2_KnownGrowsOnSuccess ==
    /\ known_tokens = <<>>
    /\ [][\/ known_tokens' = known_tokens
          \/ /\ ev'.sent /\ ev'.ok
             /\ known_tokens' = Append(known_tokens, ev'.addr)]_vars
C2_Witness ==
    /\ Len(known_tokens) = 2 /\ ev.sent /\ ev.ok
    /\ known_tokens[2] = ev.addr /\ last_send[known_tokens[1]] = "ok"

\* C3: an address whose latest send failed is not in known_tokens, and when it
\* is presented again it is fetched again and, if it passes the filters, a new
\* send is attempted.
C3_FailedSendRetried ==
    /\ \A a \in Addresses : last_send[a] = "fail" => ~InList(a, known_tokens)
    /\ ev.prev = "fail" => ev.fetched /\ (PassedFilters(ev) => ev.sent)
C3_Witness ==
    ev.prev = "fail" /\ PassedFilters(ev) /\ ev.sent /\ ev.ok /\ InList(ev.addr, known_tokens)

\* C4: when generate_token_info returns its invalid-data sentinel no send is
\* made and the address is not added to known_tokens; every message sent is a
\* full formatted alert.
C4_SentinelNeverSent ==
    /\ ev.message \in {"no_pair", "risk_error"} => ~ev.sent /\ ~InList(ev.addr, known_tokens)
    /\ ev.sent => ev.message = "alert"

\* C5: no failure of a fetch, of a pair field's coercion or of a send escapes
\* a pass: every pass returns normally.
C5_NoExceptionEscapes ==
    ~ev.raised /\ pass_status # "raised" /\ pc # "recover"

\* C6: a candidate whose main pair's liquidity is below the threshold is not
\* sent and not marked known, and every address that was sent and marked known
\* had a main pair with liquidity at or above the threshold.
C6_ThresholdRespected ==
    /\ ev.main /\ ev.liq.exc = "none" /\ below_threshold(ev.liq)
         => ~ev.sent /\ ~InList(ev.addr, known_tokens)
    /\ ev.sent => PassedFilters(ev)

\* C7: an address that ends with "pump" in any letter case is never fetched,
\* never sent and never in known_tokens.
C7_PumpExcluded ==
    /\ EndsWithPumpAnyCase(ev.addr) => ~ev.fetched /\ ~ev.sent
    /\ \A i \in 1..Len(known_tokens) : ~EndsWithPumpAnyCase(known_tokens[i])
    /\ \A a \in Addresses : EndsWithPumpAnyCase(a) => sent_ok[a] = 0 /\ last_send[a] = "none"
C7_Witness ==
    pc = "loop" /\ ev.addr = AddrPumpMixed /\ ~ev.fetched /\ Len(known_tokens) = 1

\* what C8 says get_main_pair selects
ClaimedLiquidity(p) ==
    IF p.liquidity.m = "map" /\ p.liquidity.v.t = "num" THEN p.liquidity.v.n ELSE 0
Least(S) == CHOOSE i \in S : \A j \in S : i <= j
ClaimedIndex(pairs) ==
    LET valid == {i \in 1..Len(pairs) : pairs[i].kind # "nodict"}
        positive == {i \in valid : ClaimedLiquidity(pairs[i]) > 0}
        best == {i \in positive :
                   \A j \in positive : ClaimedLiquidity(pairs[j]) <= ClaimedLiquidity(pairs[i])}
    IN IF positive # {} THEN Least(best)
       ELSE IF valid # {} THEN Least(valid)
       ELSE 0
\* C8: get_main_pair returns the structurally valid record with the greatest
\* positive parsed liquidity (earliest on ties); with no positive liquidity the
\* first structurally valid record; None exactly when there is no such record.
C8_MainPairSelection ==
    fn = "get_main_pair" =>
        /\ ret.index = ClaimedIndex(arg.pairs)
        /\ ret.found = (\E i \in 1..Len(arg.pairs) : arg.pairs[i].kind # "nodict")

\* the inputs C9 is about
NumberOf(f) == IF f.m = "map" THEN f.v.n ELSE 0
IsNumeric(f) == f.m = "absent" \/ (f.m = "map" /\ f.v.t \in {"absent", "num"})
ExamplePair == DictPair(Map(Num(20000)), Map(Num(50000)), Map(Num(10)))
HugeLiquidity == DictPair(Map(Num(1000000000)), AbsentField, AbsentField)
HugeVolume == DictPair(Map(Num(0)), Map(Num(1000000000)), AbsentField)
\* C9: for numeric fields (missing read as 0) risk_score is
\* liquidity/10000 - volume/100000 + |priceChange|/10 and risk_percentage is
\* risk_score*10 clamped into [0, 100]; risk_percentage lies in [0, 100] for
\* every assessment; the three examples of the claim give 25, 100 and 0.
C9_RiskFormula ==
    fn = "calculate_investment_risk" =>
        /\ ret.ok => ret.risk_percentage >= 0 /\ ret.risk_percentage <= 100000
        /\ arg.kind = "dict" /\ IsNumeric(arg.liquidity) /\ IsNumeric(arg.volume)
             /\ IsNumeric(arg.priceChange) =>
             LET l == NumberOf(arg.liquidity)
                 v == NumberOf(arg.volume)
                 c == NumberOf(arg.priceChange)
                 absc == IF c < 0 THEN 0 - c ELSE c
             IN /\ ret.ok /\ ~ret.nan
                /\ (ret.risk_score - l - 1000 * absc) * 10 = 0 - v
                /\ ret.risk_score < 0 => ret.risk_percentage = 0
                /\ ret.risk_score > 100000 => ret.risk_percentage = 100000
                /\ ret.risk_score >= 0 /\ ret.risk_score <= 100000
                     => ret.risk_percentage = ret.risk_score
        /\ arg = ExamplePair => ret.risk_score = 25000 /\ ret.risk_percentage = 25000
        /\ arg = HugeLiquidity => ret.risk_percentage = 100000
        /\ arg = HugeVolume => ret.risk_percentage = 0
C9_Witness ==
    fn = "calculate_investment_risk" /\ arg = ExamplePair /\ ret.risk_percentage = 25000

\* C10: main() stops only through an interruption; a pass that returned is
\* followed by a sleep of CHECK_INTERVAL, a pass that raised by the recovery
\* sleep, and in both cases, unless interrupted, another pass is started.
C10_LoopNeverStops ==
    /\ [](pc = "stopped" => interrupted)
    /\ [](pc = "sleep" => sleep_for = CHECK_INTERVAL /\ pass_status = "returned")
    /\ [](pc = "recover" => sleep_for = RECOVERY_SLEEP /\ pass_status = "raised")
    /\ (pc = "sleep") ~> (pc = "start" \/ interrupted)
    /\ (pc = "recover") ~> (pc = "start" \/ interrupted)
    /\ []<>(pc = "start" \/ interrupted)
C10_Witness ==
    pc = "start" /\ pass_status = "raised" /\ ~interrupted
====
